---- MODULE Spec2Model ----
(***************************************************************************)
(* Model of the two stateful form fields of the repository:                *)
(*   - SelectField  (src/src/components/basic/Select.tsx), the combobox;   *)
(*   - FileInput    (src/src/components/basic/FileInput.tsx), file intake. *)
(* Each React event handler is one atomic action: React flushes the state  *)
(* updates of a discrete event (click, keydown, mousedown, drop, change)   *)
(* and runs the effects before the next event is delivered, so a handler   *)
(* always reads the state of the latest render.                            *)
(***************************************************************************)
EXTENDS Integers, Sequences, FiniteSets, TLC

VARIABLES
    \* ---- SelectField ----
    options,           \* prop: sequence of [value, label]
    selectDisabled,    \* prop: disabled
    isOpen,            \* useState(false)
    selected,          \* useState(getValues(name) || null)
    highlightedIndex,  \* useState(-1), 0-based index as in the source
    subject,           \* the form container's value for the field's name
    selectFx,          \* side effects requested by the last handler, in order
    selectEv,          \* the last event delivered to the combobox
    run,               \* observer: ArrowDown presses made right after an open
    \* ---- FileInput ----
    maxFiles,          \* prop: [given, n]
    maxSizeMB,         \* prop (default 999)
    accept,            \* prop: [given, types]
    fileDisabled,      \* prop: disabled
    value,             \* the form container's value for the field (File[])
    rejectionError,    \* useState<string | null>(null)
    dragActive,        \* useState(false)
    pickerOpen,        \* the browser's file dialog of the hidden input is open
    fileFx,            \* number of onChange (form writes) made by the last handler
    fileEv,            \* the last event delivered to the file control
    probe              \* observer: one batch and the state it was offered in

selectVars == <<options, selectDisabled, isOpen, selected, highlightedIndex,
                subject, selectFx, selectEv, run>>
fileVars == <<maxFiles, maxSizeMB, accept, fileDisabled, value, rejectionError,
              dragActive, pickerOpen, fileFx, fileEv, probe>>
vars == <<selectVars, fileVars>>

\* ------------------------------------------------------------------------
\* Bounds of the model
\* ------------------------------------------------------------------------
MaxOptions == 3
MaxCap == 2        \* largest configured maxFiles
MaxBatch == 2      \* most files offered by one picker result or one drop
MaxOffered == 3    \* most files of the one batch that is followed alone
MaxHeld == 1       \* most files held when no cap is in force

\* ------------------------------------------------------------------------
\* JavaScript values
\* ------------------------------------------------------------------------
NULL == "null"
UNDEFINED == "undefined"

\* The number NaN, produced by % with a zero divisor. It is kept apart from
\* every index the model can reach; arithmetic propagates it and every
\* comparison with it is false.
NaN == -1000

IsNaN(x) == x = NaN

JsAdd(a, b) == IF IsNaN(a) \/ IsNaN(b) THEN NaN ELSE a + b

\* a % n of JavaScript: the remainder takes the sign of the dividend, and a
\* zero divisor gives NaN. (-1 % 1 is -0, which compares and indexes as 0.)
JsRem(a, n) ==
    IF IsNaN(a) \/ IsNaN(n) \/ n = 0 THEN NaN
    ELSE IF a >= 0 THEN a % n
    ELSE -((-a) % n)

JsGe(a, b) == ~IsNaN(a) /\ ~IsNaN(b) /\ a >= b
JsLt(a, b) == ~IsNaN(a) /\ ~IsNaN(b) /\ a < b

\* getValues(name) || null: undefined and the empty string are falsy.
OrNull(v) == IF v \in {UNDEFINED, NULL, ""} THEN NULL ELSE v

\* ------------------------------------------------------------------------
\* SelectField
\* ------------------------------------------------------------------------
AllValues == <<"A", "B", "C", "D", "E">>

Option(i) == [value |-> AllValues[i], label |-> AllValues[i]]

OptionLists == { [i \in 1..n |-> Option(i)] : n \in 0..MaxOptions }

\* A value of the form container that is the value of no option.
StaleValue == "Z"

\* Variant: the position counted from 1.
FindIndex_OneBased(opts, v) ==
    IF \E i \in 1..Len(opts) : opts[i].value = v
    THEN CHOOSE i \in 1..Len(opts) :
             /\ opts[i].value = v
             /\ \A j \in 1..(i - 1) : opts[j].value # v
    ELSE -1

\* options.findIndex((opt) => opt.value === v): 0-based, -1 when absent.
FindIndex(opts, v) ==
    IF \E i \in 1..Len(opts) : opts[i].value = v
    THEN (CHOOSE i \in 1..Len(opts) :
              /\ opts[i].value = v
              /\ \A j \in 1..(i - 1) : opts[j].value # v) - 1
    ELSE -1

\* The combobox state a handler reads and the state it leaves.
SelectState ==
    [isOpen |-> isOpen, selected |-> selected,
     highlightedIndex |-> highlightedIndex, subject |-> subject,
     fx |-> <<>>, commit |-> -1]

\* Variant: closing also forgets the committed selection.
closeDropdown_ClearsSelection(st) ==
    [st EXCEPT !.isOpen = FALSE, !.selected = NULL]

\* const closeDropdown = () => setIsOpen(false)
closeDropdown(st) == [st EXCEPT !.isOpen = FALSE]

\* Variant: the revalidation asked for before the value is written.
handleSelect_TriggerFirst(st, i) ==
    LET v == options[i + 1].value
        s1 == [st EXCEPT !.selected = v]
        s2 == [s1 EXCEPT !.fx = Append(@, "trigger")]
        s3 == [s2 EXCEPT !.subject = v, !.fx = Append(@, "setValue")]
        s4 == closeDropdown(s3)
    IN  [s4 EXCEPT !.fx = Append(@, "close"), !.commit = i]

handleSelect(st, i) ==
    LET v == options[i + 1].value
        s1 == [st EXCEPT !.selected = v]
        s2 == [s1 EXCEPT !.subject = v, !.fx = Append(@, "setValue")]
        s3 == [s2 EXCEPT !.fx = Append(@, "trigger")]
        s4 == closeDropdown(s3)
    IN  [s4 EXCEPT !.fx = Append(@, "close"), !.commit = i]

\* Variant: a request to open an open combobox is ignored.
toggleDropdown_OpenOnly(st) ==
    LET selectedIndex == FindIndex(options, st.selected)
    IN  IF ~st.isOpen
        THEN [st EXCEPT !.isOpen = TRUE,
                        !.highlightedIndex =
                            IF selectedIndex # -1 THEN selectedIndex ELSE -1]
        ELSE st

toggleDropdown(st) ==
    LET opening == ~st.isOpen
        selectedIndex == FindIndex(options, st.selected)
    IN  IF opening
        THEN [st EXCEPT !.isOpen = TRUE,
                        !.highlightedIndex =
                            IF selectedIndex # -1 THEN selectedIndex ELSE -1]
        ELSE [st EXCEPT !.isOpen = FALSE, !.highlightedIndex = -1]

Keys == {"Enter", " ", "ArrowDown", "ArrowUp", "Escape", "Tab"}

\* Variant: the step forward without the wrap.
arrowDownUpdater_NoWrap(prev) == JsAdd(prev, 1)

\* (prev) => (prev + 1) % options.length
arrowDownUpdater(prev) == JsRem(JsAdd(prev, 1), Len(options))

\* Variant: the step backward without the wrap.
arrowUpUpdater_NoWrap(prev) == JsAdd(prev, -1)

\* (prev) => (prev - 1 + options.length) % options.length
arrowUpUpdater(prev) ==
    JsRem(JsAdd(JsAdd(prev, -1), Len(options)), Len(options))

\* Variant: Space does not open the closed combobox.
handleKeyDown_SpaceIgnored(st, key) ==
    IF ~st.isOpen
    THEN IF key = "Enter" THEN toggleDropdown(st) ELSE st
    ELSE CASE key = "ArrowDown" ->
                [st EXCEPT !.highlightedIndex = arrowDownUpdater(@)]
           [] key = "ArrowUp" ->
                [st EXCEPT !.highlightedIndex = arrowUpUpdater(@)]
           [] key = "Enter" ->
                IF /\ JsGe(st.highlightedIndex, 0)
                   /\ JsLt(st.highlightedIndex, Len(options))
                THEN handleSelect(st, st.highlightedIndex)
                ELSE st
           [] key = "Escape" -> closeDropdown(st)
           [] OTHER -> st

handleKeyDown(st, key) ==
    IF ~st.isOpen
    THEN IF key = "Enter" \/ key = " " THEN toggleDropdown(st) ELSE st
    ELSE CASE key = "ArrowDown" ->
                [st EXCEPT !.highlightedIndex = arrowDownUpdater(@)]
           [] key = "ArrowUp" ->
                [st EXCEPT !.highlightedIndex = arrowUpUpdater(@)]
           [] key = "Enter" ->
                IF /\ JsGe(st.highlightedIndex, 0)
                   /\ JsLt(st.highlightedIndex, Len(options))
                THEN handleSelect(st, st.highlightedIndex)
                ELSE st
           [] key = "Escape" -> closeDropdown(st)
           [] OTHER -> st

\* useEffect(..., [isOpen]): runs after a render in which isOpen changed.
openEffect(before, st) ==
    LET selectedIndex == FindIndex(options, st.selected)
    IN  IF st.isOpen # before.isOpen /\ st.isOpen /\ selectedIndex # -1
        THEN [st EXCEPT !.highlightedIndex = selectedIndex]
        ELSE st

\* useEffect(..., [highlightedIndex, isOpen]): scrolls the highlighted option
\* into view when either changed (every rendered option has a ref).
scrollEffect(before, st) ==
    IF /\ (st.isOpen # before.isOpen
            \/ st.highlightedIndex # before.highlightedIndex)
       /\ st.isOpen
       /\ st.highlightedIndex # -1
       /\ JsGe(st.highlightedIndex, 0)
       /\ JsLt(st.highlightedIndex, Len(options))
    THEN [st EXCEPT !.fx = Append(@, "scrollIntoView")]
    ELSE st

\* Observer of the sequence "open, then ArrowDown, ArrowDown, ...".
NoRun == [active |-> FALSE, start |-> -1, downs |-> 0]

nextRun(before, st, isDown) ==
    IF ~before.isOpen /\ st.isOpen
    THEN [active |-> TRUE, start |-> st.highlightedIndex, downs |-> 0]
    ELSE IF isDown /\ before.isOpen /\ run.active /\ run.downs < Len(options)
    THEN [run EXCEPT !.downs = @ + 1]
    ELSE NoRun

\* Commit of a handler's result, after the effects of the render it causes.
SelectStep(st0, ev, isDown) ==
    LET before == SelectState
        st == scrollEffect(before, openEffect(before, st0))
    IN  /\ isOpen' = st.isOpen
        /\ selected' = st.selected
        /\ highlightedIndex' = st.highlightedIndex
        /\ subject' = st.subject
        /\ selectFx' = st.fx
        /\ selectEv' = [ev EXCEPT !.commit = st.commit]
        /\ run' = nextRun(before, st, isDown)
        /\ UNCHANGED <<options, selectDisabled>>

Ev(op, key) == [op |-> op, key |-> key, commit |-> -1, wasOpen |-> isOpen]

\* onKeyDown={disabled ? () => {} : handleKeyDown}
KeyDown(key) ==
    /\ SelectStep(IF selectDisabled THEN SelectState
                  ELSE handleKeyDown(SelectState, key),
                  Ev("keyDown", key), key = "ArrowDown" /\ ~selectDisabled)
    /\ UNCHANGED fileVars

\* onClick={disabled ? () => {} : toggleDropdown} on the trigger
TriggerClick ==
    /\ SelectStep(IF selectDisabled THEN SelectState
                  ELSE toggleDropdown(SelectState),
                  Ev("triggerClick", ""), FALSE)
    /\ UNCHANGED fileVars

\* onClick of a rendered option: the list is rendered only while open.
OptionClick(i) ==
    /\ isOpen
    /\ i \in 0..(Len(options) - 1)
    /\ SelectStep(handleSelect(SelectState, i), Ev("optionClick", ""), FALSE)
    /\ UNCHANGED fileVars

\* document mousedown whose target is outside dropdownRef
MouseDownOutside ==
    /\ SelectStep(closeDropdown(SelectState), Ev("mouseDownOutside", ""), FALSE)
    /\ UNCHANGED fileVars

\* The combobox element loses the focus (Tab, or focus given to another
\* element). It has no onBlur or onFocusOut handler: nothing runs.
Blur ==
    /\ SelectStep(SelectState, Ev("blur", ""), FALSE)
    /\ UNCHANGED fileVars

\* The parent renders the field again with another value of the disabled prop.
SetSelectDisabled(b) ==
    /\ b # selectDisabled
    /\ selectDisabled' = b
    /\ selectEv' = Ev("setDisabled", "")
    /\ selectFx' = <<>>
    /\ run' = NoRun
    /\ UNCHANGED <<options, isOpen, selected, highlightedIndex, subject>>
    /\ UNCHANGED fileVars

\* onSubmit: handleSubmit calls it only when the schema accepts the values
\* (subject: z.string().min(1)); methods.reset() restores defaultValues, which
\* hold no subject. The field's local state is not touched.
SelectSubmit ==
    /\ subject \notin {UNDEFINED, NULL, ""}
    /\ subject' = UNDEFINED
    /\ selectEv' = Ev("submit", "")
    /\ selectFx' = <<>>
    /\ run' = NoRun
    /\ UNCHANGED <<options, selectDisabled, isOpen, selected, highlightedIndex>>
    /\ UNCHANGED fileVars

\* ------------------------------------------------------------------------
\* FileInput
\* ------------------------------------------------------------------------
\* A content type is held as its parts around "/": "image/png" is
\* <<"image", "png">> and the empty type reported for an unknown file is <<"">>.
Png == <<"image", "png">>
Jpeg == <<"image", "jpeg">>
Pdf == <<"application", "pdf">>
Exe == <<"application", "x-msdownload">>

ALLOWED_TYPES == {Png, Jpeg, Pdf}

DefaultMaxSizeMB == 999
FormMaxSizeMB == 5
SchemaMaxFiles == 3
SchemaMaxMB == 5

File(name, size, type) == [name |-> name, size |-> size, type |-> type]

\* The files the user offers: two different files with one name and size,
\* another name of the same size, and a file of the first name that is larger
\* than the form's 5MB and of a type outside its allow-list.
Files ==
    { File("a", 1, Png),
      File("a", 1, Pdf),
      File("b", 1, Png),
      File("a", 5 * 1024 * 1024 + 1, Exe) }

\* The files of the one batch that is followed alone: those, a file that is
\* only too large and a file that is only of a wrong type.
OfferedFiles ==
    Files \cup { File("b", 5 * 1024 * 1024 + 1, Png), File("b", 1, Exe) }

RECURSIVE SeqsUpTo(_, _)
SeqsUpTo(S, n) ==
    IF n = 0 THEN {<<>>}
    ELSE LET shorter == SeqsUpTo(S, n - 1)
         IN  shorter \cup { Append(q, x) : q \in shorter, x \in S }

Batches == SeqsUpTo(Files, MaxBatch)

OfferedBatches == SeqsUpTo(OfferedFiles, MaxOffered)

\* const fileKey = (file) => `${file.name}-${file.size}`
fileKey(file) == file.name \o "-" \o ToString(file.size)

\* mime.split("/")[1]
mimeToExtension(mime) == IF Len(mime) >= 2 THEN mime[2] ELSE UNDEFINED

\* Variant: any number given is a cap, 0 included.
Truthy_ZeroIsCap(m) == m.given

\* Truthiness of the optional number maxFiles: undefined and 0 are falsy.
Truthy(m) == m.given /\ m.n # 0

\* Variant: the slots do not count the files already held.
allowedSlotsOf_IgnoresHeld(existingFiles) ==
    IF Truthy(maxFiles)
    THEN [finite |-> TRUE, n |-> maxFiles.n]
    ELSE [finite |-> FALSE, n |-> 0]

\* maxFiles ? maxFiles - existingFiles.length : Infinity
allowedSlotsOf(existingFiles) ==
    IF Truthy(maxFiles)
    THEN [finite |-> TRUE, n |-> maxFiles.n - Len(existingFiles)]
    ELSE [finite |-> FALSE, n |-> 0]

\* Variant: > in place of >=.
SlotsUsedUp_OffByOne(len, slots) == slots.finite /\ len > slots.n

\* accepted.length >= allowedSlots
SlotsUsedUp(len, slots) == slots.finite /\ len >= slots.n

LimitMessage ==
    "You can only upload up to " \o ToString(maxFiles.n) \o " file(s)."
DuplicateMessage(file) == "Duplicate file \"" \o file.name \o "\" was skipped."
TypeMessage(file) ==
    "File type \"" \o mimeToExtension(file.type) \o "\" not accepted."
SizeMessage(file) ==
    "File \"" \o file.name \o "\" exceeds the " \o ToString(maxSizeMB)
        \o "MB size limit."

\* Variant: the check is left out.
IsDuplicate_Skipped(file, existingKeys) == FALSE

\* existingKeys.has(fileKey(file)): the set is built once, from existingFiles.
IsDuplicate(file, existingKeys) == fileKey(file) \in existingKeys

\* Variant: the size check ahead of the type check.
filterOne_SizeFirst(file, existingKeys, allowedSlots, acc) ==
    IF SlotsUsedUp(Len(acc.accepted), allowedSlots)
    THEN [acc EXCEPT !.error = LimitMessage, !.broke = TRUE]
    ELSE IF IsDuplicate(file, existingKeys)
    THEN [acc EXCEPT !.error = DuplicateMessage(file)]
    ELSE IF file.size > maxSizeMB * 1024 * 1024
    THEN [acc EXCEPT !.error = SizeMessage(file)]
    ELSE IF accept.given /\ file.type \notin accept.types
    THEN [acc EXCEPT !.error = TypeMessage(file)]
    ELSE [acc EXCEPT !.accepted = Append(@, file)]

\* One turn of the for loop of filterFiles on files[i].
filterOne(file, existingKeys, allowedSlots, acc) ==
    IF SlotsUsedUp(Len(acc.accepted), allowedSlots)
    THEN [acc EXCEPT !.error = LimitMessage, !.broke = TRUE]
    ELSE IF IsDuplicate(file, existingKeys)
    THEN [acc EXCEPT !.error = DuplicateMessage(file)]
    ELSE IF accept.given /\ file.type \notin accept.types
    THEN [acc EXCEPT !.error = TypeMessage(file)]
    ELSE IF file.size > maxSizeMB * 1024 * 1024
    THEN [acc EXCEPT !.error = SizeMessage(file)]
    ELSE [acc EXCEPT !.accepted = Append(@, file)]

RECURSIVE filterLoop(_, _, _, _, _)
filterLoop(files, i, existingKeys, allowedSlots, acc) ==
    IF i > Len(files) \/ acc.broke THEN acc
    ELSE filterLoop(files, i + 1, existingKeys, allowedSlots,
                    filterOne(files[i], existingKeys, allowedSlots, acc))

\* Variant: a batch without a failure leaves the reason that was there.
filterFiles_KeepsReason(files, existingFiles) ==
    LET existingKeys == { fileKey(existingFiles[k]) : k \in 1..Len(existingFiles) }
        allowedSlots == allowedSlotsOf(existingFiles)
        acc == filterLoop(files, 1, existingKeys, allowedSlots,
                          [accepted |-> <<>>, error |-> "", broke |-> FALSE])
    IN  [accepted |-> acc.accepted,
         rejectionError |-> IF acc.error = "" THEN rejectionError ELSE acc.error]

\* filterFiles(files, existingFiles): the files to add, and the value given
\* to setRejectionError (error || null).
filterFiles(files, existingFiles) ==
    LET existingKeys == { fileKey(existingFiles[k]) : k \in 1..Len(existingFiles) }
        allowedSlots == allowedSlotsOf(existingFiles)
        acc == filterLoop(files, 1, existingKeys, allowedSlots,
                          [accepted |-> <<>>, error |-> "", broke |-> FALSE])
    IN  [accepted |-> acc.accepted,
         rejectionError |-> IF acc.error = "" THEN NULL ELSE acc.error]

\* Variant: the files taken are put in front of the list.
addFiles_Prepends(incoming, current) ==
    LET r == filterFiles(incoming, current)
        toAdd == r.accepted
    IN  IF Len(toAdd) > 0
        THEN [value |-> toAdd \o current, rejectionError |-> r.rejectionError,
              writes |-> 1]
        ELSE [value |-> current, rejectionError |-> r.rejectionError,
              writes |-> 0]

\* Variant: one write to the form for each file taken.
addFiles_WritePerFile(incoming, current) ==
    LET r == filterFiles(incoming, current)
        toAdd == r.accepted
    IN  [value |-> current \o toAdd, rejectionError |-> r.rejectionError,
         writes |-> Len(toAdd)]

\* addFiles(incoming, current, onChange): the field's new value, the new
\* rejectionError and the number of calls of onChange.
addFiles(incoming, current) ==
    LET r == filterFiles(incoming, current)
        toAdd == r.accepted
    IN  IF Len(toAdd) > 0
        THEN [value |-> current \o toAdd, rejectionError |-> r.rejectionError,
              writes |-> 1]
        ELSE [value |-> current, rejectionError |-> r.rejectionError,
              writes |-> 0]

\* !maxFiles || value.length < maxFiles: the guard of the trigger and of onDrop
BelowCap == ~Truthy(maxFiles) \/ Len(value) < maxFiles.n

\* Variant: the last entry goes, whichever was asked for.
Splice_DropsLast(list, idx) == SubSeq(list, 1, Len(list) - 1)

\* newFiles.splice(idx, 1)
Splice(list, idx) ==
    [k \in 1..(Len(list) - 1) |-> IF k <= idx THEN list[k] ELSE list[k + 1]]

\* onChange of the hidden input: addFiles(selected, value, onChange).
onChangeOutcome(files, current) == addFiles(files, current)

\* Variant: a drop leaves the rejection reason as it was.
onDropOutcome_NoReason(files, current, reason) ==
    [addFiles(files, current) EXCEPT !.rejectionError = reason]

\* onDrop: addFiles(droppedFiles, value, onChange) under the guard
\* !maxFiles || value.length < maxFiles, and nothing otherwise.
onDropOutcome(files, current, reason) ==
    IF ~Truthy(maxFiles) \/ Len(current) < maxFiles.n
    THEN addFiles(files, current)
    ELSE [value |-> current, rejectionError |-> reason, writes |-> 0]

FEv(op) == [op |-> op]

\* The observer follows the one batch it was armed for.
ProbeOff == [pc |-> "off", incoming |-> <<>>, value |-> <<>>,
             rejectionError |-> NULL]
ProbeStep == probe' = IF probe.pc = "ready" THEN [probe EXCEPT !.pc = "done"]
                      ELSE probe

\* What bounds the list when no cap does: a batch may not grow it past
\* MaxHeld.
Holds(list) == Truthy(maxFiles) \/ Len(list) <= MaxHeld

FileConfig == <<maxFiles, maxSizeMB, accept>>

\* onClick, and onKeyDown with Enter or Space, of the drop zone: below the cap
\* they click the hidden input, which opens the file dialog unless the input
\* is disabled. The dialog is modal: no other event reaches the page before
\* it closes.
ActivateTrigger(how) ==
    /\ ~pickerOpen
    /\ pickerOpen' = (BelowCap /\ ~fileDisabled)
    /\ fileEv' = FEv(how)
    /\ fileFx' = 0
    /\ ProbeStep
    /\ UNCHANGED <<FileConfig, fileDisabled, value, rejectionError, dragActive>>
    /\ UNCHANGED selectVars

\* onChange of the hidden input: the dialog closed with a selection.
PickerResult(files) ==
    /\ pickerOpen
    /\ Len(files) > 0
    /\ LET r == onChangeOutcome(files, value)
       IN  /\ Holds(r.value)
           /\ value' = r.value
           /\ rejectionError' = r.rejectionError
           /\ fileFx' = r.writes
    /\ pickerOpen' = FALSE
    /\ fileEv' = FEv("pick")
    /\ ProbeStep
    /\ UNCHANGED <<FileConfig, fileDisabled, dragActive>>
    /\ UNCHANGED selectVars

\* The dialog closed without a selection: no change event.
PickerCancel ==
    /\ pickerOpen
    /\ pickerOpen' = FALSE
    /\ fileEv' = FEv("cancel")
    /\ fileFx' = 0
    /\ ProbeStep
    /\ UNCHANGED <<FileConfig, fileDisabled, value, rejectionError, dragActive>>
    /\ UNCHANGED selectVars

\* onDragOver / onDragEnter
DragOver ==
    /\ ~pickerOpen
    /\ dragActive' = TRUE
    /\ fileEv' = FEv("dragOver")
    /\ fileFx' = 0
    /\ ProbeStep
    /\ UNCHANGED <<FileConfig, fileDisabled, value, rejectionError, pickerOpen>>
    /\ UNCHANGED selectVars

\* onDragLeave
DragLeave ==
    /\ ~pickerOpen
    /\ dragActive' = FALSE
    /\ fileEv' = FEv("dragLeave")
    /\ fileFx' = 0
    /\ ProbeStep
    /\ UNCHANGED <<FileConfig, fileDisabled, value, rejectionError, pickerOpen>>
    /\ UNCHANGED selectVars

\* onDrop
Drop(files) ==
    /\ ~pickerOpen
    /\ dragActive' = FALSE
    /\ LET r == onDropOutcome(files, value, rejectionError)
       IN  /\ Holds(r.value)
           /\ value' = r.value
           /\ rejectionError' = r.rejectionError
           /\ fileFx' = r.writes
    /\ fileEv' = FEv("drop")
    /\ ProbeStep
    /\ UNCHANGED <<FileConfig, fileDisabled, pickerOpen>>
    /\ UNCHANGED selectVars

\* onClick of the remove button of the entry at idx (0-based)
Remove(idx) ==
    /\ ~pickerOpen
    /\ idx \in 0..(Len(value) - 1)
    /\ IF fileDisabled
       THEN /\ UNCHANGED <<value, rejectionError>>
            /\ fileFx' = 0
       ELSE /\ value' = Splice(value, idx)
            /\ rejectionError' = NULL
            /\ fileFx' = 1
    /\ fileEv' = FEv("remove")
    /\ ProbeStep
    /\ UNCHANGED <<FileConfig, fileDisabled, dragActive, pickerOpen>>
    /\ UNCHANGED selectVars

\* The parent renders the field again with another value of the disabled prop.
SetFileDisabled(b) ==
    /\ ~pickerOpen
    /\ b # fileDisabled
    /\ fileDisabled' = b
    /\ fileEv' = FEv("setDisabled")
    /\ fileFx' = 0
    /\ ProbeStep
    /\ UNCHANGED <<FileConfig, value, rejectionError, dragActive, pickerOpen>>
    /\ UNCHANGED selectVars

\* The schema of the form for attachments: at most 3 files, at least one,
\* every type allowed, every file at most 5MB.
SchemaAccepts(files) ==
    /\ Len(files) <= SchemaMaxFiles
    /\ Len(files) > 0
    /\ \A k \in 1..Len(files) : files[k].type \in ALLOWED_TYPES
    /\ \A k \in 1..Len(files) : files[k].size <= SchemaMaxMB * 1024 * 1024

\* onSubmit: methods.reset() leaves the field with the Controller's
\* defaultValue, []. rejectionError is local state and stays.
FileSubmit ==
    /\ ~pickerOpen
    /\ SchemaAccepts(value)
    /\ value' = <<>>
    /\ fileEv' = FEv("submit")
    /\ fileFx' = 0
    /\ ProbeStep
    /\ UNCHANGED <<FileConfig, fileDisabled, rejectionError, dragActive, pickerOpen>>
    /\ UNCHANGED selectVars

MaxFilesChoices ==
    {[given |-> FALSE, n |-> 0]} \cup { [given |-> TRUE, n |-> n] : n \in 0..MaxCap }

\* maxSizeMB with accept: the form's (5MB, allow-list), or both left out.
FileConfigInit ==
    /\ maxFiles \in MaxFilesChoices
    /\ \/ maxSizeMB = FormMaxSizeMB /\ accept = [given |-> TRUE, types |-> ALLOWED_TYPES]
       \/ maxSizeMB = DefaultMaxSizeMB /\ accept = [given |-> FALSE, types |-> {}]

FileIdle ==
    /\ maxFiles = [given |-> FALSE, n |-> 0]
    /\ maxSizeMB = DefaultMaxSizeMB
    /\ accept = [given |-> FALSE, types |-> {}]
    /\ fileDisabled = FALSE
    /\ value = <<>>
    /\ rejectionError = NULL
    /\ dragActive = FALSE
    /\ pickerOpen = FALSE
    /\ fileFx = 0
    /\ fileEv = FEv("mount")
    /\ probe = ProbeOff

SelectIdle ==
    /\ options = <<>>
    /\ selectDisabled = FALSE
    /\ isOpen = FALSE
    /\ subject = UNDEFINED
    /\ selected = NULL
    /\ highlightedIndex = -1
    /\ selectFx = <<>>
    /\ selectEv = Ev("mount", "")
    /\ run = NoRun

FileInit ==
    /\ FileConfigInit
    /\ fileDisabled \in BOOLEAN
    /\ value = <<>>
    /\ rejectionError = NULL
    /\ dragActive = FALSE
    /\ pickerOpen = FALSE
    /\ fileFx = 0
    /\ fileEv = FEv("mount")
    /\ probe = ProbeOff
    /\ SelectIdle

FileNext ==
    \/ \E how \in {"click", "key"} : ActivateTrigger(how)
    \/ \E files \in Batches : PickerResult(files)
    \/ PickerCancel
    \/ DragOver
    \/ DragLeave
    \/ \E files \in Batches : Drop(files)
    \/ \E idx \in 0..(MaxHeld + MaxCap) : Remove(idx)
    \/ \E b \in BOOLEAN : SetFileDisabled(b)
    \/ FileSubmit

FileSpec == FileInit /\ [][FileNext]_vars


\* ------------------------------------------------------------------------
\* One batch, offered in a state the field can be in.
\* ------------------------------------------------------------------------
\* The identity key of the data model: the pair (name, byteSize).
IdentityKey(file) == <<file.name, file.size>>

KeysOf(list) == { IdentityKey(list[k]) : k \in 1..Len(list) }

DistinctKeys(list) ==
    \A i, j \in 1..Len(list) : i # j => IdentityKey(list[i]) # IdentityKey(list[j])

\* A file that passes the type and the size check of the configuration.
ValidFile(file) ==
    /\ accept.given => file.type \in accept.types
    /\ file.size <= maxSizeMB * 1024 * 1024

\* Lists the field holds after drops of one valid, new file each.
SettledLists ==
    { list \in SeqsUpTo({ f \in Files : ValidFile(f) },
                        IF Truthy(maxFiles) THEN maxFiles.n ELSE MaxHeld) :
        DistinctKeys(list) }

\* rejectionError with such a list: none; the duplicate message, after a drop
\* of the first entry again below the cap; the limit message, when the drop
\* that brought the last entry held one file more.
SettledErrors ==
    {NULL}
    \cup (IF Len(value) > 0 /\ BelowCap THEN {DuplicateMessage(value[1])} ELSE {})
    \cup (IF Truthy(maxFiles) /\ Len(value) = maxFiles.n THEN {LimitMessage} ELSE {})

BatchInit ==
    /\ FileConfigInit
    /\ fileDisabled = FALSE
    /\ value \in SettledLists
    /\ rejectionError \in SettledErrors
    /\ pickerOpen \in {open \in BOOLEAN : open => BelowCap}
    /\ dragActive = ~pickerOpen
    /\ fileFx = 0
    /\ fileEv = IF pickerOpen THEN FEv("click") ELSE FEv("dragOver")
    /\ \E files \in OfferedBatches :
          probe = [pc |-> "ready", incoming |-> files, value |-> value,
                   rejectionError |-> rejectionError]
    /\ SelectIdle

BatchDrop == probe.pc = "ready" /\ Drop(probe.incoming)

BatchPick == probe.pc = "ready" /\ PickerResult(probe.incoming)

BatchNext == BatchDrop \/ BatchPick

BatchSpec == BatchInit /\ [][BatchNext]_vars

SelectInit ==
    /\ options \in OptionLists
    /\ selectDisabled \in BOOLEAN
    /\ isOpen = FALSE
    /\ subject \in {UNDEFINED, "", StaleValue}
                     \cup { options[i].value : i \in 1..Len(options) }
    /\ selected = OrNull(subject)
    /\ highlightedIndex = -1
    /\ selectFx = <<>>
    /\ selectEv = Ev("mount", "")
    /\ run = NoRun
    /\ FileIdle

SelectNext ==
    \/ \E key \in Keys : KeyDown(key)
    \/ TriggerClick
    \/ \E i \in 0..(MaxOptions - 1) : OptionClick(i)
    \/ MouseDownOutside
    \/ Blur
    \/ \E b \in BOOLEAN : SetSelectDisabled(b)
    \/ SelectSubmit

SelectSpec == SelectInit /\ [][SelectNext]_vars

\* ========================================================================
\* Properties
\* ========================================================================
Take(list, n) == SubSeq(list, 1, n)

Min(a, b) == IF a <= b THEN a ELSE b

\* C1: no two entries of the accepted list share the identity key
\* (name, byteSize), in every state reached by batches and removals.
C1_NoSharedIdentityKey == DistinctKeys(value)

\* C2: with a cap configured (maxFiles a non-zero number, the only case the
\* field treats as a cap), the accepted list is never longer than maxFiles.
C2_WithinCap == Truthy(maxFiles) => Len(value) <= maxFiles.n

\* C2 witness: a batch of several files has filled the list to the cap and
\* its overflow was turned away.
C2_Witness ==
    /\ Truthy(maxFiles)
    /\ Len(value) = maxFiles.n
    /\ fileEv.op \in {"drop", "pick"}
    /\ rejectionError = LimitMessage

\* C3: highlightedIndex is -1 or an index of the option sequence, whatever
\* the length of the sequence (zero included).
C3_HighlightInRange ==
    highlightedIndex = -1 \/ highlightedIndex \in 0..(Len(options) - 1)

\* C4: after a commit of option i (a click on it, or Enter while it is
\* highlighted) the combobox is closed, highlightedIndex is -1 and the
\* selected value is the value of option i.
C4_CommitClosesAndResets ==
    selectEv.commit # -1 =>
        /\ ~isOpen
        /\ highlightedIndex = -1
        /\ selected = options[selectEv.commit + 1].value

ComboboxEvents == {"keyDown", "triggerClick", "optionClick", "mouseDownOutside"}

\* C5: a combobox event that commits nothing (an open, a move of the
\* highlight, a dismissal by Escape or by a pointer outside) leaves the
\* selected value and the form's value of the field as they were.
C5_OnlyCommitWrites ==
    [][(selectEv'.op \in ComboboxEvents /\ selectEv'.commit = -1)
        => (selected' = selected /\ subject' = subject)]_vars

\* C5 witness: Escape has closed an open combobox that holds a selection.
C5_Witness ==
    /\ selectEv.op = "keyDown"
    /\ selectEv.key = "Escape"
    /\ selectEv.wasOpen
    /\ ~isOpen
    /\ selected # NULL
    /\ subject = selected

\* C6: while the combobox is disabled, a key press, a click on the trigger,
\* a click on an option and a pointer outside change none of isOpen,
\* highlightedIndex, the selected value and the form's value.
C6_DisabledChangesNothing ==
    [][(selectDisabled /\ selectDisabled' /\ selectEv'.op \in ComboboxEvents)
        => UNCHANGED <<isOpen, highlightedIndex, selected, subject>>]_vars

\* C7: while the file control is disabled, a picker result, a drop and a
\* click on a remove button change neither the accepted list nor the
\* rejection message.
C7_DisabledIntakeChangesNothing ==
    [][(fileDisabled /\ fileDisabled' /\ fileEv'.op \in {"pick", "drop", "remove"})
        => UNCHANGED <<value, rejectionError>>]_vars

RunComplete == run.active /\ Len(options) > 0 /\ run.downs = Len(options)

\* C8 as stated: after an open and len(options) presses of ArrowDown the
\* highlight is where the open left it, for every selected value.
C8_Circularity == RunComplete => highlightedIndex = run.start

\* C8 amended: the highlight returns when the open put it on an option (the
\* selected value matches one); from -1 (nothing selected, or a value of no
\* option) it ends on the last option.
C8_CircularityFromAnOption ==
    RunComplete =>
        IF run.start # -1 THEN highlightedIndex = run.start
        ELSE highlightedIndex = Len(options) - 1

\* C8 witness: a whole turn was made from the second of several options.
C8_Witness ==
    /\ RunComplete
    /\ Len(options) >= 2
    /\ run.start = 1
    /\ selected = options[2].value

\* A batch of valid files, with keys distinct from one another and from the
\* keys already held.
CleanBatch(files, held) ==
    /\ \A k \in 1..Len(files) : ValidFile(files[k])
    /\ DistinctKeys(files)
    /\ KeysOf(files) \cap KeysOf(held) = {}

Overflowing ==
    /\ probe.pc = "done"
    /\ Truthy(maxFiles)
    /\ CleanBatch(probe.incoming, probe.value)
    /\ Len(probe.incoming) > maxFiles.n - Len(probe.value)

FilledToCap ==
    /\ value = probe.value
                \o Take(probe.incoming, maxFiles.n - Len(probe.value))
    /\ Len(value) = maxFiles.n
    /\ rejectionError = LimitMessage

Passing(files, held) ==
    LET Passes(f) == ValidFile(f) /\ IdentityKey(f) \notin KeysOf(held)
    IN  SelectSeq(files, Passes)

IsHeld(file, held) == IdentityKey(file) \in KeysOf(held)

WithHeldDuplicate ==
    /\ probe.pc = "done"
    /\ \E k \in 1..Len(probe.incoming) : IsHeld(probe.incoming[k], probe.value)

\* The free slots when the batch arrives (the length of the batch stands for
\* no limit).
Room ==
    IF Truthy(maxFiles) THEN maxFiles.n - Len(probe.value)
    ELSE Len(probe.incoming) + 1

LastHeldDuplicate ==
    LET i == CHOOSE k \in 1..Len(probe.incoming) :
                 /\ IsHeld(probe.incoming[k], probe.value)
                 /\ \A j \in (k + 1)..Len(probe.incoming) :
                        ~IsHeld(probe.incoming[j], probe.value)
    IN  probe.incoming[i]

\* The rejection reason names the duplicate when nothing else of the batch
\* fails: the other candidates all pass and leave a slot free.
DuplicateReported ==
    (/\ \A k \in 1..Len(probe.incoming) :
            \/ IsHeld(probe.incoming[k], probe.value)
            \/ ValidFile(probe.incoming[k])
     /\ Len(Passing(probe.incoming, probe.value)) < Room)
    => rejectionError = DuplicateMessage(LastHeldDuplicate)

\* C10 as stated: a batch holding a file whose key is already held loses only
\* that file: every other valid candidate is appended, behind the held
\* entries, which stay as they were.
C10_OnlyTheDuplicateRejected ==
    WithHeldDuplicate =>
        /\ value = probe.value \o Passing(probe.incoming, probe.value)
        /\ DuplicateReported

\* C10 amended: the other valid candidates are appended as far as the free
\* slots reach; the held entries stay as they were, in order, in front.
C10_DuplicateSkippedOthersWithinCap ==
    WithHeldDuplicate =>
        /\ value = probe.value
                    \o Take(Passing(probe.incoming, probe.value),
                            Min(Room, Len(Passing(probe.incoming, probe.value))))
        /\ DuplicateReported

\* C10 witness: a batch of a held file and a new valid one; the new one was
\* appended and the duplicate reported.
C10_Witness ==
    /\ WithHeldDuplicate
    /\ Len(probe.incoming) >= 2
    /\ Len(probe.value) >= 1
    /\ Len(value) = Len(probe.value) + 1
    /\ rejectionError = DuplicateMessage(LastHeldDuplicate)

\* The two checks of a candidate that come after the capacity and the
\* duplicate check.
TypeRefused(file) == accept.given /\ file.type \notin accept.types

TooLarge(file) == file.size > maxSizeMB * 1024 * 1024

\* The batch was walked (a picker result, or a drop below the cap) and its
\* last candidate came to the type check: a slot was still free and its key
\* is not held.
LastCandidate == probe.incoming[Len(probe.incoming)]

LastCameToTypeCheck ==
    /\ probe.pc = "done"
    /\ Len(probe.incoming) > 0
    /\ fileEv.op = "pick" \/ Room > 0
    /\ Len(Passing(Take(probe.incoming, Len(probe.incoming) - 1), probe.value))
           < Room
    /\ ~IsHeld(LastCandidate, probe.value)

\* C11: a candidate whose type is outside the configured allow-list is turned
\* away with the type message whatever its size; a candidate of an allowed
\* type that is larger than the per-file maximum is turned away with the
\* size message; no such file enters the accepted list.
C11_TypeBeforeSize ==
    LastCameToTypeCheck =>
        /\ TypeRefused(LastCandidate)
              => rejectionError = TypeMessage(LastCandidate)
        /\ (~TypeRefused(LastCandidate) /\ TooLarge(LastCandidate))
              => rejectionError = SizeMessage(LastCandidate)
        /\ \A k \in 1..Len(value) : ~TypeRefused(value[k]) /\ ~TooLarge(value[k])

\* C11 witness: the last candidate was both of a refused type and too large,
\* and the type message is the one reported.
C11_Witness ==
    /\ LastCameToTypeCheck
    /\ TypeRefused(LastCandidate)
    /\ TooLarge(LastCandidate)
    /\ rejectionError = TypeMessage(LastCandidate)
    /\ value = probe.value

\* The list without its entry at the 0-based index k, the others in order.
Without(list, k) ==
    /\ Len(value') = Len(list) - 1
    /\ \A j \in 1..Len(value') :
          value'[j] = IF j <= k THEN list[j] ELSE list[j + 1]

\* C12: a removal at a valid index k, on an enabled control, leaves the
\* accepted list one entry shorter (the entry at k gone, the others in their
\* order), writes the list to the form once and sets the rejection reason
\* to null whatever it was.
C12_RemoveShrinksByOne ==
    [][\A k \in 0..(MaxHeld + MaxCap) :
          (Remove(k) /\ ~fileDisabled)
              => /\ Without(value, k)
                 /\ fileFx' = 1
                 /\ rejectionError' = NULL]_vars

\* C12 witness: a removal has been carried out and has left entries behind.
C12_Witness ==
    /\ fileEv.op = "remove"
    /\ fileFx = 1
    /\ ~fileDisabled
    /\ Len(value) >= 1
    /\ rejectionError = NULL

\* A batch none of whose candidates can be taken: no slot is free, or every
\* candidate fails the duplicate, the type or the size check.
EntirelyRejected ==
    /\ probe.pc = "done"
    /\ Len(probe.incoming) > 0
    /\ Room <= 0 \/ Passing(probe.incoming, probe.value) = <<>>

\* C13: a non-empty batch that is entirely rejected, from the picker or from
\* a drop, in any state (the list at the cap included), leaves the accepted
\* list as it was and the rejection reason set to a message.
C13_RejectedBatchReported ==
    EntirelyRejected => value = probe.value /\ rejectionError # NULL

\* The step closes an open combobox.
Closing == isOpen /\ ~isOpen'

\* The step is a commit, or a dismissal by Escape or by a pointer outside.
CommitOrDismiss ==
    \/ selectEv'.commit # -1
    \/ selectEv'.op = "keyDown" /\ selectEv'.key = "Escape"
    \/ selectEv'.op = "mouseDownOutside"

ClickOnOpenTrigger == selectEv'.op = "triggerClick" /\ isOpen

\* C14 as stated: an open combobox closes only by a commit or a dismissal,
\* and a click on the trigger while it is open leaves it open with the
\* highlight where it was.
C14_OpenRequestIsNoOp ==
    [][/\ Closing => CommitOrDismiss
       /\ ClickOnOpenTrigger
             => isOpen' /\ highlightedIndex' = highlightedIndex]_vars

\* C14 amended: an open combobox closes only by a commit, a dismissal or a
\* click on its trigger; the click on the trigger of an open, enabled
\* combobox closes it and puts the highlight at -1, and changes neither the
\* selected value nor the form's value.
C14_TriggerClickCloses ==
    [][/\ Closing => CommitOrDismiss \/ selectEv'.op = "triggerClick"
       /\ (ClickOnOpenTrigger /\ ~selectDisabled)
             => /\ ~isOpen'
                /\ highlightedIndex' = -1
                /\ UNCHANGED <<selected, subject>>]_vars

\* C14 witness: a click on the trigger has closed an open combobox whose
\* selection is one of the options.
C14_Witness ==
    /\ selectEv.op = "triggerClick"
    /\ selectEv.wasOpen
    /\ ~selectDisabled
    /\ ~isOpen
    /\ highlightedIndex = -1
    /\ FindIndex(options, selected) # -1

\* The step delivers one of the three dismissals to an open combobox.
DismissalOfOpen ==
    /\ isOpen
    /\ \/ selectEv'.op = "keyDown" /\ selectEv'.key = "Escape"
       \/ selectEv'.op = "mouseDownOutside"
       \/ selectEv'.op = "blur"

\* C15: whenever the combobox is open and Escape is pressed, a pointer lands
\* outside the widget or the widget loses the focus, it is closed in the next
\* state.
C15_DismissCloses == [][DismissalOfOpen => ~isOpen']_vars

\* C16: in every reachable state in which the combobox is closed the
\* highlight is at -1 (after the mount, after every commit and after every
\* dismissal).
C16_ClosedMeansNoHighlight == ~isOpen => highlightedIndex = -1

\* C17: in every reachable state the selected value mirrors the form's value
\* of the field (an unset or empty form value as null) and, when it is not
\* null, is the value of an option; a form value seeded with the value of no
\* option is the caller's affair and is left aside.
C17_SelectedMirrorsForm ==
    selected # StaleValue =>
        /\ selected = OrNull(subject)
        /\ selected # NULL => FindIndex(options, selected) # -1

\* A key reaches the handler of an enabled combobox.
KeyOnEnabled(keys) ==
    selectEv'.op = "keyDown" /\ selectEv'.key \in keys /\ ~selectDisabled

ComboboxUnchanged == UNCHANGED <<isOpen, highlightedIndex, selected, subject>>

\* The step commits option i (0-based): its value is selected and written
\* to the form, and the combobox is closed.
Committed(i) ==
    /\ selectEv'.commit = i
    /\ selected' = options[i + 1].value
    /\ subject' = options[i + 1].value
    /\ ~isOpen'

\* The step opens the combobox, the highlight on the selected option if
\* there is one.
Opened ==
    /\ isOpen'
    /\ highlightedIndex' = FindIndex(options, selected)
    /\ UNCHANGED <<selected, subject>>

IsIndex(i) == JsGe(i, 0) /\ JsLt(i, Len(options))

ClosedKeys ==
    /\ (~isOpen /\ KeyOnEnabled({"Enter", " "})) => Opened
    /\ (~isOpen /\ KeyOnEnabled(Keys \ {"Enter", " "})) => ComboboxUnchanged

C19_FailuresAreNoOps ==
    [][/\ (isOpen /\ KeyOnEnabled({"Enter"}) /\ ~IsIndex(highlightedIndex))
             => ComboboxUnchanged
       /\ (isOpen /\ KeyOnEnabled({"ArrowDown", "ArrowUp"}) /\ Len(options) = 0)
             => ComboboxUnchanged]_vars

\* The step is a move of the highlight by delta on an open, enabled combobox
\* with options, from -1 or from an index.
MoveHighlight(key) ==
    /\ isOpen
    /\ KeyOnEnabled({key})
    /\ Len(options) > 0
    /\ highlightedIndex \in -1..(Len(options) - 1)

\* (highlightedIndex + delta + len(options)) mod len(options)
Moved(delta) ==
    /\ highlightedIndex'
          = (highlightedIndex + delta + Len(options)) % Len(options)
    /\ UNCHANGED <<isOpen, selected, subject>>

\* C20: a move of the highlight by +1 (ArrowDown) or -1 (ArrowUp), on an
\* open combobox with options, puts highlightedIndex at
\* (highlightedIndex + delta + len(options)) mod len(options), from -1 and
\* from every index: last to first forward, first to last backward, and
\* forward from -1 to the first.
C20_MoveHighlightFormula ==
    [][/\ MoveHighlight("ArrowDown") => Moved(1)
       /\ MoveHighlight("ArrowUp") => Moved(-1)]_vars

\* C20 witness: ArrowUp has wrapped from the first of several options to
\* the last (only from index 0 does a step backward end on the last index).
C20_Witness ==
    /\ selectEv.op = "keyDown"
    /\ selectEv.key = "ArrowUp"
    /\ selectEv.wasOpen
    /\ ~selectDisabled
    /\ isOpen
    /\ Len(options) >= 2
    /\ highlightedIndex = Len(options) - 1

\* A request to open reaches a closed, enabled combobox: Enter or Space on
\* it, or a click on its trigger.
OpenRequest ==
    /\ ~isOpen
    /\ ~selectDisabled
    /\ \/ KeyOnEnabled({"Enter", " "})
       \/ selectEv'.op = "triggerClick"

\* After the step the highlight is on the option whose value is the selected
\* value, or at -1 when there is none (nothing selected, or a value of no
\* option).
HighlightOnSelected ==
    IF \E i \in 1..Len(options) : options[i].value = selected
    THEN /\ highlightedIndex' \in 0..(Len(options) - 1)
         /\ options[highlightedIndex' + 1].value = selected
    ELSE highlightedIndex' = -1

\* The scenario: options [A, B, C] with B selected, an open and then
\* run.downs presses of ArrowDown, nothing in between.
InScenario(downs) ==
    /\ Len(options) = 3
    /\ selected = "B"
    /\ run.active
    /\ run.start = 1
    /\ run.downs = downs

\* C21: an open of the closed combobox sets isOpen and puts highlightedIndex
\* on the option of the selected value, or at -1 without one; with options
\* [A, B, C] and B selected it opens at 1, ArrowDown gives 2, and the commit
\* by Enter selects C and closes.
C21_OpenHighlightsSelected ==
    [][/\ OpenRequest
             => isOpen' /\ HighlightOnSelected /\ UNCHANGED <<selected, subject>>
       /\ (OpenRequest /\ Len(options) = 3 /\ selected = "B")
             => highlightedIndex' = 1
       /\ (InScenario(0) /\ KeyOnEnabled({"ArrowDown"}))
             => highlightedIndex' = 2 /\ isOpen'
       /\ (InScenario(1) /\ KeyOnEnabled({"Enter"}))
             => selected' = "C" /\ subject' = "C" /\ ~isOpen']_vars

\* C21 witness: in the scenario, the combobox was opened with B selected and
\* ArrowDown has moved the highlight from 1 to 2.
C21_Witness ==
    /\ InScenario(1)
    /\ isOpen
    /\ ~selectDisabled
    /\ highlightedIndex = 2

\* The effects asked for by the last handler, as a set.
Requested == { selectFx[k] : k \in 1..Len(selectFx) }

\* C22: a commit writes the value to the form, then asks for the
\* revalidation of the field, then closes, the revalidation being asked for
\* once; no other operation of the combobox asks for it (or writes).
C22_CommitEffectsInOrder ==
    IF selectEv.commit # -1
    THEN /\ selectFx = <<"setValue", "trigger", "close">>
         /\ subject = options[selectEv.commit + 1].value
         /\ ~isOpen
    ELSE "trigger" \notin Requested /\ "setValue" \notin Requested

\* C22 witness: a click on the second option has committed it.
C22_Witness ==
    /\ selectEv.op = "optionClick"
    /\ selectEv.commit = 1
    /\ selectFx = <<"setValue", "trigger", "close">>
    /\ subject = options[2].value

\* The followed batch was walked: a picker result, or a drop below the cap.
Walked ==
    /\ probe.pc = "done"
    /\ fileEv.op = "pick" \/ Room > 0

\* Candidate k of the batch finds no slot free: the candidates before it
\* that pass the checks have used them up.
NoSlotAt(k) ==
    Len(Passing(Take(probe.incoming, k - 1), probe.value)) >= Room

\* Candidate k fails the duplicate, the type or the size check.
FailsAt(k) ==
    \/ IsHeld(probe.incoming[k], probe.value)
    \/ TypeRefused(probe.incoming[k])
    \/ TooLarge(probe.incoming[k])

\* The message of the check that candidate k fails, in the order of the
\* checks.
MessageAt(k) ==
    LET f == probe.incoming[k]
    IN  IF IsHeld(f, probe.value) THEN DuplicateMessage(f)
        ELSE IF TypeRefused(f) THEN TypeMessage(f)
        ELSE SizeMessage(f)

\* The reason a walk leaves: the limit message when it stops for want of a
\* slot, else the message of the last candidate that fails a check, else
\* null.
LastFailure ==
    LET n == Len(probe.incoming)
    IN  IF \E k \in 1..n : NoSlotAt(k) THEN LimitMessage
        ELSE IF \E k \in 1..n : FailsAt(k)
        THEN MessageAt(CHOOSE k \in 1..n :
                           FailsAt(k) /\ \A j \in (k + 1)..n : ~FailsAt(j))
        ELSE NULL

\* C23: after every walk of a batch the rejection reason is the message of
\* the last check that failed in that walk, whatever failed before in the
\* batch and whatever reason an earlier batch had left, and null when
\* nothing failed.
C23_LastFailureRetained == Walked => rejectionError = LastFailure

\* C23 witness: a batch whose first candidate is a held duplicate and whose
\* last is of a refused type was walked over an older reason; the type
\* message is what is left.
C23_Witness ==
    /\ Walked
    /\ Len(probe.incoming) >= 2
    /\ IsHeld(probe.incoming[1], probe.value)
    /\ ~IsHeld(LastCandidate, probe.value)
    /\ TypeRefused(LastCandidate)
    /\ probe.rejectionError # NULL
    /\ rejectionError = TypeMessage(LastCandidate)

\* C24: a batch writes to the form once when at least one of its candidates
\* was taken (one write with the whole new list, however many were taken)
\* and not at all when none was.
C24_OneWritePerBatch ==
    probe.pc = "done" =>
        IF Walked /\ Passing(probe.incoming, probe.value) # <<>>
        THEN fileFx = 1 /\ Len(value) > Len(probe.value)
        ELSE fileFx = 0 /\ value = probe.value

\* C24 witness: a batch from which two files were taken made one write.
C24_Witness ==
    /\ Walked
    /\ Len(value) = Len(probe.value) + 2
    /\ fileFx = 1

\* The followed batch could have come from either source: it is not empty
\* (a picker result never is) and the list was below the cap (at the cap the
\* trigger opens no picker).
EitherSource ==
    /\ probe.pc = "done"
    /\ Len(probe.incoming) > 0
    /\ Room > 0

\* What the handler of the other source makes of the same batch in the
\* same state.
OtherSource ==
    IF fileEv.op = "drop"
    THEN onChangeOutcome(probe.incoming, probe.value)
    ELSE onDropOutcome(probe.incoming, probe.value, probe.rejectionError)

IsPrefix(a, b) == Len(a) <= Len(b) /\ SubSeq(b, 1, Len(a)) = a

\* a is b with some entries left out, the others in their order.
RECURSIVE InOrderOf(_, _)
InOrderOf(a, b) ==
    IF a = <<>> THEN TRUE
    ELSE IF b = <<>> THEN FALSE
    ELSE IF Head(a) = Head(b) THEN InOrderOf(Tail(a), Tail(b))
    ELSE InOrderOf(a, Tail(b))

\* The entries a batch puts behind the list of the current state.
AppendedBy(files) ==
    LET r == addFiles(files, value)
    IN  SubSeq(r.value, Len(value) + 1, Len(r.value))

\* C26 as stated: whatever happens to the field, short of a removal, leaves
\* the list before it in front of the list after it.
C26_OnlyRemoveDeletes ==
    [][fileEv'.op # "remove" => IsPrefix(value, value')]_vars

\* C26: a batch (picker result or drop) leaves the accepted list as the
\* list before it, unchanged in front, followed by candidates of the batch
\* in the order of the batch; apart from a removal, only the form's reset
\* after a successful submit deletes or moves an entry.
C26_AppendOnly ==
    /\ [][fileEv'.op \notin {"remove", "submit"} => IsPrefix(value, value')]_vars
    /\ [](\A files \in Batches :
              /\ IsPrefix(value, addFiles(files, value).value)
              /\ InOrderOf(AppendedBy(files), files))

\* C26 witness: a batch has put a file behind the list and has had another
\* of its candidates turned away.
C26_Witness ==
    /\ fileEv.op \in {"pick", "drop"}
    /\ fileFx = 1
    /\ Len(value) = 2
    /\ value[1] # value[2]
    /\ rejectionError # NULL

\* No cap is in force: maxFiles is absent, or it is 0.
NoCap == ~maxFiles.given \/ maxFiles.n = 0

\* What filterFiles takes from a batch when the capacity check is left out
\* of the loop.
AcceptedWithoutCapacityCheck(files) ==
    filterLoop(files, 1, { fileKey(value[k]) : k \in 1..Len(value) },
               [finite |-> FALSE, n |-> 0],
               [accepted |-> <<>>, error |-> "", broke |-> FALSE])

\* C27: with maxFiles absent or 0 no cap is in force: allowedSlots is
\* unbounded, no batch has a candidate turned away for capacity (what is
\* taken and the reason given are those of a run without the capacity
\* check), a click or a key on the enabled trigger always opens the picker
\* and a drop is always handed to addFiles, however many files are held.
C27_ZeroIsNoCap ==
    /\ [][(NoCap /\ fileEv'.op \in {"click", "key"} /\ ~fileDisabled)
             => pickerOpen']_vars
    /\ [](NoCap =>
             /\ ~allowedSlotsOf(value).finite
             /\ BelowCap
             /\ \A files \in Batches :
                    LET plain == AcceptedWithoutCapacityCheck(files)
                        r == filterFiles(files, value)
                    IN  /\ r.accepted = plain.accepted
                        /\ r.rejectionError # LimitMessage
                        /\ ~plain.broke
                        /\ onDropOutcome(files, value, rejectionError)
                               = addFiles(files, value))

\* C27 witness: maxFiles is 0, a file is held, and the trigger has just
\* opened the picker for more.
C27_Witness ==
    /\ maxFiles = [given |-> TRUE, n |-> 0]
    /\ Len(value) > 0
    /\ fileEv.op \in {"click", "key"}
    /\ pickerOpen

====
